---- MODULE Spec2Model ----
(***************************************************************************)
(* Assistive vision demo (app.py, stream_mobile.py): a Streamlit script    *)
(* that is re-executed on every UI interaction, a VideoProcessor whose     *)
(* recv handles one video frame at a time, and a still-image OCR branch.   *)
(*                                                                         *)
(* Text is modelled as a sequence of tokens: a sentence is the sequence of *)
(* the pieces str.join and + concatenate (labels, " and ", " ahead"), an   *)
(* OCR text is the sequence of its characters.  The empty string is <<>>.  *)
(***************************************************************************)
EXTENDS Integers, Sequences, FiniteSets, TLC

\* ------------------------------------------------------------------ bounds
MaxBoxes == 3      \* detections the detector returns for one frame
MaxFrames == 3     \* frames one processor instance receives
MaxLoads == 2      \* executions of the model-loading code in one server process
MaxOcrLen == 4     \* characters of the raw OCR output

\* ------------------------------------------------------------ label tables
OUTDOOR_CLASS_NAMES ==
    << "Ambulance", "Auto-Rikshaw", "bike", "bus", "car",
       "puddle", "stairs", "truck", "van", "zebra-crossing" >>

\* The indoor detector's own names table (model.names), cut to its first
\* classes; the indoor weights are the stock yolov8s.pt.
IndoorNames == << "person", "bicycle", "car" >>

\* class_names = model.names if env == "Indoor" else OUTDOOR_CLASS_NAMES
ClassNames(e) == IF e = "Indoor" THEN IndoorNames ELSE OUTDOOR_CLASS_NAMES

\* Class ids the selected detector puts in box.cls.  The indoor table is the
\* detector's own, so every id it emits is in it; the outdoor table is hard
\* coded next to weights that may know more classes than it lists.
BoxClasses(e) ==
    IF e = "Indoor" THEN {2}
    ELSE {3, 4, Len(OUTDOOR_CLASS_NAMES)}

RECURSIVE SeqsUpTo(_, _)
SeqsUpTo(S, n) ==
    IF n = 0 THEN { <<>> }
    ELSE LET shorter == SeqsUpTo(S, n - 1)
         IN  shorter \cup { Append(q, x) : q \in { t \in shorter : Len(t) = n - 1 }, x \in S }

\* ------------------------------------------------------------ pure helpers
IndexError == "<IndexError>"

\* Variant: an id past the end is clamped to the last entry instead of raising.
LookupClamped(names, cls_id) ==
    IF cls_id >= 0 /\ cls_id < Len(names) THEN names[cls_id + 1]
    ELSE IF cls_id < 0 /\ cls_id >= 0 - Len(names) THEN names[Len(names) + cls_id + 1]
    ELSE names[Len(names)]

\* class_names[cls_id] on a Python list: 0-based, negative ids count from the
\* end, anything else raises IndexError.
Lookup(names, cls_id) ==
    IF cls_id >= 0 /\ cls_id < Len(names) THEN names[cls_id + 1]
    ELSE IF cls_id < 0 /\ cls_id >= 0 - Len(names) THEN names[Len(names) + cls_id + 1]
    ELSE IndexError

\* One pass of the loop body over a box of class cls_id: labels.append(label)
\* unless the lookup raised IndexError (continue).
LabelsAfterBox(names, cls_id, labels) ==
    IF Lookup(names, cls_id) = IndexError THEN labels
    ELSE Append(labels, Lookup(names, cls_id))

\* The same pass on the image: cv2.rectangle and cv2.putText for box number i,
\* both after the lookup.  An overlay entry is one rectangle + text pair.
OverlayAfterBox(names, cls_id, i, overlay) ==
    IF Lookup(names, cls_id) = IndexError THEN overlay
    ELSE Append(overlay, [box |-> i, text |-> Lookup(names, cls_id)])

ToSet(q) == { q[i] : i \in 1..Len(q) }

\* set(labels)
DistinctLabels(labels) == ToSet(labels)

\* The orders in which iterating a set can yield its elements.
RECURSIVE SetOrders(_)
SetOrders(S) ==
    IF S = {} THEN { <<>> }
    ELSE UNION { { << x >> \o q : q \in SetOrders(S \ { x }) } : x \in S }

\* Variant: the labels are joined as collected, without set().
LabelOrdersNoSet(labels) == { labels }

\* The sequences iterating set(labels) can yield.
LabelOrders(labels) == SetOrders(DistinctLabels(labels))

\* sep.join(parts)
RECURSIVE Join(_, _)
Join(sep, parts) ==
    IF parts = <<>> THEN <<>>
    ELSE IF Len(parts) = 1 THEN << parts[1] >>
    ELSE << parts[1], sep >> \o Join(sep, Tail(parts))

\* " and ".join(set(labels)) + " ahead", for one iteration order of the set
ComposeSentence(order) == Join(" and ", order) \o << " ahead" >>

\* Variants of the speech condition: no comparison with last_sentence; no
\* "if labels:" guard; the comparison inverted.
ShouldSpeakAlways(labels, sentence, last) == labels # <<>>

ShouldSpeakIgnoringLabels(labels, sentence, last) == sentence # last

ShouldSpeakInverted(labels, sentence, last) == labels # <<>> /\ sentence = last

\* if labels: ... if sentence != self.last_sentence:
ShouldSpeak(labels, sentence, last) == labels # <<>> /\ sentence # last

\* Variants of the update of last_sentence: never stored; cleared by a frame
\* without labels.
NextLastSentenceStale(labels, sentence, last) == last

NextLastSentenceReset(labels, sentence, last) ==
    IF labels = <<>> THEN <<>>
    ELSE IF labels # <<>> /\ sentence # last THEN sentence ELSE last

\* self.last_sentence after the frame; the assignment precedes the speech call
NextLastSentence(labels, sentence, last) ==
    IF ShouldSpeak(labels, sentence, last) THEN sentence ELSE last

\* ---------------------------------------------------------------- OCR text
Whitespace == { " ", "\n" }
OcrChars == { "a", " ", "\n" }

\* pytesseract.image_to_string(processed)
OcrOutputs == SeqsUpTo(OcrChars, MaxOcrLen)

\* st.camera_input: <<>> while nothing is captured, else the image, held as
\* the raw text the OCR engine reads from it.
CameraInputs == { <<>> } \cup { << raw >> : raw \in OcrOutputs }

\* Camera inputs while a video session is the subject: none, a blank image,
\* an image with text.
FewCameraInputs == { <<>>, << << " " >> >>, << << "a", "\n", "a" >> >> }

\* text.split(): the maximal runs of non-whitespace characters, in order.
\* cur is the run being read.
RECURSIVE SplitFrom(_, _, _)
SplitFrom(raw, i, cur) ==
    IF i > Len(raw) THEN (IF cur = <<>> THEN <<>> ELSE << cur >>)
    ELSE IF raw[i] \in Whitespace
         THEN (IF cur = <<>> THEN <<>> ELSE << cur >>) \o SplitFrom(raw, i + 1, <<>>)
         ELSE SplitFrom(raw, i + 1, Append(cur, raw[i]))

Split(raw) == SplitFrom(raw, 1, <<>>)

\* " ".join(words) on character sequences
RECURSIVE JoinWords(_)
JoinWords(words) ==
    IF words = <<>> THEN <<>>
    ELSE IF Len(words) = 1 THEN words[1]
    ELSE words[1] \o << " " >> \o JoinWords(Tail(words))

\* text = " ".join(text.split())
CollapseWhitespace(raw) == JoinWords(Split(raw))

\* if text: st.success(text); speak ... else: st.warning("No text found ...")
OcrOutcome(t) == IF t # <<>> THEN "text" ELSE "no_text"

\* Variant: speech is synthesized whether or not the text is empty.
OcrSpeechAlways(t) == << t >>

\* The texts the still-image branch hands to speech synthesis.
OcrSpeech(t) == IF t # <<>> THEN << t >> ELSE <<>>

\* ------------------------------------------------------------------- state
VARIABLES
    variant,        \* which entry point the process runs: "app" or "stream_mobile"
    loads,          \* executions of the model-loading code so far
    cache,          \* st.cache_resource entry of load_models: <<>> or <<pair>>
    indoor_model,   \* instance bound to indoor_model (number of the load that made it)
    outdoor_model,  \* instance bound to outdoor_model
    app_mode,       \* sidebar selectbox: "detect" or "ocr"
    env,            \* radio: "Indoor" or "Outdoor"
    processor,      \* a VideoProcessor instance is live
    last_sentence,  \* self.last_sentence
    frames,         \* frames the live processor has handled
    pc,             \* "idle" between frames, "loop" inside recv's loop over the boxes
    boxes,          \* results.boxes iterated so far in the latest frame (class ids)
    labels,         \* labels of the latest frame
    overlay,        \* rectangles/texts drawn on the latest frame
    sentence,       \* sentence composed for the latest frame, <<>> if none
    spoke,          \* texts handed to speech synthesis by the latest frame
    raised,         \* the latest recv ended in an exception
    returned,       \* the latest recv returned the frame
    synthesized,    \* sentences whose synthesis completed in this session
    prev_spoken,    \* sentence of the session's latest speech event, <<>> if none
    switched,       \* env changed since the processor last composed a sentence
    after_switch,   \* the latest frame composed the first sentence after such a change
    img_file,       \* camera input of the current run: <<>> or <<raw OCR output it yields>>
    text,           \* collapsed OCR text of the current run
    ocr_outcome,    \* "none", "text" or "no_text"
    ocr_spoke,      \* texts handed to speech synthesis by the current run
    ocr_raised      \* the current run ended in an exception of the speech backend

loadVars == << variant, loads, cache, indoor_model, outdoor_model >>
uiVars == << app_mode, env >>
frameVars == << boxes, labels, overlay, sentence, spoke, raised, returned >>
sessionVars == << processor, last_sentence, frames, pc, synthesized, prev_spoken, switched,
                 after_switch >>
ocrVars == << img_file, text, ocr_outcome, ocr_spoke, ocr_raised >>
vars == << loadVars, uiVars, frameVars, sessionVars, ocrVars >>

\* The server process has started; the script has not run yet.
Init ==
    /\ variant \in { "app", "stream_mobile" }
    /\ loads = 0
    /\ cache = <<>>
    /\ indoor_model = 0
    /\ outdoor_model = 0
    /\ app_mode = "detect"
    /\ env = "Indoor"
    /\ processor = FALSE
    /\ last_sentence = <<>>
    /\ frames = 0
    /\ boxes = <<>>
    /\ labels = <<>>
    /\ overlay = <<>>
    /\ sentence = <<>>
    /\ spoke = <<>>
    /\ raised = FALSE
    /\ returned = FALSE
    /\ pc = "idle"
    /\ synthesized = {}
    /\ prev_spoken = <<>>
    /\ switched = FALSE
    /\ after_switch = FALSE
    /\ img_file = <<>>
    /\ text = <<>>
    /\ ocr_outcome = "none"
    /\ ocr_spoke = <<>>
    /\ ocr_raised = FALSE

\* ------------------------------------------------------------ model loading
\* app.py: load_models under @st.cache_resource runs its body on a cache miss
\* only.  stream_mobile.py: YOLO(...) is a top-level statement of the script.
LoadsAfterRun(v, c, n) ==
    IF v = "app" /\ c # <<>> THEN n ELSE n + 1

ModelsAfterRun(v, c, n) ==
    IF v = "app" /\ c # <<>> THEN c[1]
    ELSE [indoor |-> n + 1, outdoor |-> n + 1]

CacheAfterRun(v, c, n) ==
    IF v = "app" THEN << ModelsAfterRun(v, c, n) >> ELSE c

\* ------------------------------------------------------------------ actions
\* One execution of the script, top to bottom, with the widget values m and e
\* and the camera input img (<<>>, or <<the OCR output the image yields>>).
RunScript(m, e, img, ok) ==
    /\ pc = "idle"
    /\ LoadsAfterRun(variant, cache, loads) <= MaxLoads
    /\ loads = 0 => (m = "detect" /\ e = "Indoor")
    /\ loads' = LoadsAfterRun(variant, cache, loads)
    /\ indoor_model' = ModelsAfterRun(variant, cache, loads).indoor
    /\ outdoor_model' = ModelsAfterRun(variant, cache, loads).outdoor
    /\ cache' = CacheAfterRun(variant, cache, loads)
    /\ app_mode' = m
    /\ UNCHANGED variant
    /\ IF m = "detect"
       THEN /\ img = <<>> /\ ok
            /\ env' = e
            /\ switched' = (processor /\ (switched \/ e # env))
            /\ img_file' = <<>> /\ text' = <<>> /\ ocr_outcome' = "none"
            /\ ocr_spoke' = <<>> /\ ocr_raised' = FALSE
            /\ UNCHANGED << processor, last_sentence, frames, pc, synthesized, prev_spoken,
                            after_switch >>
            /\ UNCHANGED frameVars
       ELSE /\ e = env
            /\ UNCHANGED env
            \* the streamer is rendered by the object detection branch only
            /\ processor' = FALSE
            /\ last_sentence' = <<>> /\ frames' = 0 /\ pc' = "idle"
            /\ synthesized' = {} /\ prev_spoken' = <<>> /\ switched' = FALSE
            /\ after_switch' = FALSE
            /\ boxes' = <<>> /\ labels' = <<>> /\ overlay' = <<>> /\ sentence' = <<>>
            /\ spoke' = <<>> /\ raised' = FALSE /\ returned' = FALSE
            /\ img_file' = img
            /\ IF img = <<>>
               THEN /\ ok
                    /\ text' = <<>> /\ ocr_outcome' = "none"
                    /\ ocr_spoke' = <<>> /\ ocr_raised' = FALSE
               ELSE LET t == CollapseWhitespace(img[1])
                    IN  /\ text' = t
                        /\ ocr_outcome' = OcrOutcome(t)
                        /\ ocr_spoke' = OcrSpeech(t)
                        /\ ok \/ OcrSpeech(t) # <<>>
                        /\ ocr_raised' = ~ok

Run ==
    \E m \in { "detect", "ocr" }, e \in { "Indoor", "Outdoor" },
       img \in FewCameraInputs, ok \in BOOLEAN :
        RunScript(m, e, img, ok)

RunOcr ==
    \E m \in { "detect", "ocr" }, e \in { "Indoor", "Outdoor" },
       img \in CameraInputs, ok \in BOOLEAN :
        RunScript(m, e, img, ok)

\* video_processor_factory: VideoProcessor.__init__
StartSession ==
    /\ loads > 0 /\ app_mode = "detect" /\ ~processor
    /\ processor' = TRUE
    /\ last_sentence' = <<>>
    /\ frames' = 0
    /\ pc' = "idle"
    /\ synthesized' = {}
    /\ prev_spoken' = <<>>
    /\ switched' = FALSE
    /\ after_switch' = FALSE
    /\ boxes' = <<>> /\ labels' = <<>> /\ overlay' = <<>> /\ sentence' = <<>>
    /\ spoke' = <<>> /\ raised' = FALSE /\ returned' = FALSE
    /\ UNCHANGED << loadVars, uiVars, ocrVars >>

\* The connection ends; the processor instance is gone.
StopSession ==
    /\ processor /\ pc = "idle"
    /\ processor' = FALSE
    /\ last_sentence' = <<>>
    /\ frames' = 0
    /\ pc' = "idle"
    /\ synthesized' = {}
    /\ prev_spoken' = <<>>
    /\ switched' = FALSE
    /\ after_switch' = FALSE
    /\ boxes' = <<>> /\ labels' = <<>> /\ overlay' = <<>> /\ sentence' = <<>>
    /\ spoke' = <<>> /\ raised' = FALSE /\ returned' = FALSE
    /\ UNCHANGED << loadVars, uiVars, ocrVars >>

\* recv, up to the loop: the frame is converted, the detector has run,
\* labels = [].
RecvBegin ==
    /\ processor /\ app_mode = "detect" /\ pc = "idle" /\ frames < MaxFrames
    /\ pc' = "loop"
    /\ boxes' = <<>> /\ labels' = <<>> /\ overlay' = <<>>
    /\ UNCHANGED << sentence, spoke, raised, returned >>
    /\ UNCHANGED << processor, last_sentence, frames, synthesized, prev_spoken, switched,
                    after_switch >>
    /\ UNCHANGED << loadVars, uiVars, ocrVars >>

\* One iteration of "for box in results.boxes", on a box of class cls_id.
RecvBox(cls_id) ==
    /\ pc = "loop" /\ Len(boxes) < MaxBoxes
    /\ boxes' = Append(boxes, cls_id)
    /\ labels' = LabelsAfterBox(ClassNames(env), cls_id, labels)
    /\ overlay' = OverlayAfterBox(ClassNames(env), cls_id, Len(boxes) + 1, overlay)
    /\ UNCHANGED << sentence, spoke, raised, returned >>
    /\ UNCHANGED sessionVars
    /\ UNCHANGED << loadVars, uiVars, ocrVars >>

\* recv after the loop: order is the order in which set(labels) is iterated,
\* ok whether the speech backend completes.
RecvEnd(order, ok) ==
    LET s == IF labels = <<>> THEN <<>> ELSE ComposeSentence(order)
        speak == ShouldSpeak(labels, s, last_sentence)
    IN  /\ pc = "loop"
        /\ speak \/ ok
        /\ pc' = "idle"
        /\ frames' = frames + 1
        /\ sentence' = s
        /\ last_sentence' = NextLastSentence(labels, s, last_sentence)
        /\ spoke' = IF speak THEN << s >> ELSE <<>>
        /\ prev_spoken' = IF speak THEN s ELSE prev_spoken
        /\ synthesized' = IF speak /\ ok THEN synthesized \cup { s } ELSE synthesized
        /\ raised' = (speak /\ ~ok)
        /\ returned' = ~(speak /\ ~ok)
        /\ switched' = (switched /\ labels = <<>>)
        /\ after_switch' = (switched /\ labels # <<>>)
        /\ UNCHANGED << boxes, labels, overlay, processor >>
        /\ UNCHANGED << loadVars, uiVars, ocrVars >>

RecvLoop == \E cls_id \in BoxClasses(env) : RecvBox(cls_id)

RecvFinish ==
    \E order \in LabelOrders(labels), ok \in BOOLEAN : RecvEnd(order, ok)

Next == Run \/ StartSession \/ StopSession \/ RecvBegin \/ RecvLoop \/ RecvFinish

Spec == Init /\ [][Next]_vars

\* The script alone, with every camera input, and no video session.
SpecOcr == Init /\ [][RunOcr]_vars

\* ------------------------------------------------------------------ claims
\* The step on which recv finishes a frame: the primed variables are the
\* frame's results, the unprimed ones the state the frame started from.
FrameDone == pc = "loop" /\ pc' = "idle"

\* A frame has been handled and no other is in progress.
FrameHandled == processor /\ pc = "idle" /\ frames > 0

\* The positions of a sentence that hold labels.
LabelAt(snt, k) == snt[2 * k - 1]

\* C1: whenever a handled frame retained labels, its sentence is the distinct
\* labels, each exactly once, with " and " between neighbours and " ahead" at
\* the end, and that sentence is the only text that can reach the speech call.
C1_EachLabelOnce ==
    (FrameHandled /\ labels # <<>>) =>
        LET S == ToSet(labels)
            n == Cardinality(ToSet(labels))
        IN  /\ Len(sentence) = 2 * n
            /\ sentence[2 * n] = " ahead"
            /\ \A k \in 1..(n - 1) : sentence[2 * k] = " and "
            /\ \A k \in 1..n : LabelAt(sentence, k) \in S
            /\ \A l \in S : Cardinality({ k \in 1..n : LabelAt(sentence, k) = l }) = 1
            /\ spoke \in { <<>>, << sentence >> }

\* Detections car, car, bus of the outdoor detector gave "bus and car ahead".
C1_Witness ==
    /\ FrameHandled
    /\ boxes = << 4, 4, 3 >>
    /\ labels = << "car", "car", "bus" >>
    /\ Len(overlay) = 3
    /\ sentence = << "bus", " and ", "car", " ahead" >>
    /\ spoke = << sentence >>

\* C2: a frame that composes the sentence the previous frame of the session
\* composed never invokes speech synthesis.
C2_RepeatIsSilent ==
    [][(FrameDone /\ sentence # <<>> /\ sentence' = sentence) => spoke' = <<>>]_vars

\* The second frame of a session composed the sentence of the first and was
\* silent.
C2_Witness ==
    /\ FrameHandled /\ frames = 2
    /\ sentence # <<>> /\ last_sentence = sentence /\ prev_spoken = sentence
    /\ spoke = <<>>

\* C3: a frame that retains no label invokes no speech synthesis, leaves
\* last_sentence as it was and returns the frame.
C3_EmptyFrameIsInert ==
    [][(FrameDone /\ labels' = <<>>) =>
          /\ spoke' = <<>>
          /\ last_sentence' = last_sentence
          /\ sentence' = <<>>
          /\ returned' /\ ~raised']_vars

\* A frame whose detections were all dropped, after a sentence had been spoken.
C3_Witness ==
    /\ FrameHandled /\ frames >= 2
    /\ boxes # <<>> /\ labels = <<>> /\ overlay = <<>>
    /\ last_sentence # <<>> /\ spoke = <<>> /\ returned

\* Box numbers of a frame whose class id is inside / outside the table.
InTable(names, bx) == { i \in 1..Len(bx) : bx[i] >= 0 /\ bx[i] < Len(names) }
OutOfTable(names, bx) == { i \in 1..Len(bx) : bx[i] >= Len(names) }

RECURSIVE Visible(_)
Visible(q) ==
    IF q = <<>> THEN <<>>
    ELSE IF Head(q) \in Whitespace THEN Visible(Tail(q))
    ELSE << Head(q) >> \o Visible(Tail(q))

\* C5: for a captured image the text is the OCR output with every whitespace
\* run collapsed to one space and the ends trimmed; exactly one of the two
\* outcomes is reported: "no text found" with no speech call when the text is
\* empty, the text with exactly one speech call on it otherwise.
C5_OneOutcome ==
    (img_file # <<>>) =>
        /\ Visible(text) = Visible(img_file[1])
        /\ \A i \in 1..Len(text) : text[i] # "\n"
        /\ \A i \in 1..(Len(text) - 1) : ~(text[i] = " " /\ text[i + 1] = " ")
        /\ text # <<>> => (text[1] # " " /\ text[Len(text)] # " ")
        /\ ocr_outcome \in { "text", "no_text" }
        /\ ocr_outcome = "no_text" <=> text = <<>>
        /\ ocr_outcome = "no_text" => (ocr_spoke = <<>> /\ ~ocr_raised)
        /\ ocr_outcome = "text" => ocr_spoke = << text >>

\* An image read as "a", space, newline, "a" was surfaced and spoken as "a a".
C5_Witness ==
    /\ img_file = << << "a", " ", "\n", "a" >> >>
    /\ text = << "a", " ", "a" >>
    /\ ocr_outcome = "text"
    /\ ocr_spoke = << text >>
    /\ ~ocr_raised

\* C6 as claimed: the first sentence composed after an environment change is
\* spoken, whatever last_sentence held before the change.
C6_SpokenAfterSwitch ==
    [][(FrameDone /\ switched /\ sentence' # <<>>) => spoke' = << sentence' >>]_vars

\* C6 amended: an environment change leaves last_sentence and the processor as
\* they are; the next frame takes its labels from the newly selected table, and
\* the first sentence composed after the change is spoken exactly when it
\* differs from last_sentence as carried over.
C6_CarriedOver ==
    /\ [][env' # env => (last_sentence' = last_sentence /\ processor' = processor)]_vars
    /\ [][(FrameDone /\ switched) =>
             /\ \A k \in 1..Len(labels') : labels'[k] \in ToSet(ClassNames(env))
             /\ sentence' # <<>> =>
                   /\ sentence' # last_sentence => spoke' = << sentence' >>
                   /\ sentence' = last_sentence => spoke' = <<>>]_vars

\* "car ahead" had been spoken, the environment changed to Indoor, and the
\* indoor detector's car (class 2) composed "car ahead" again: not spoken.
C6_Witness ==
    /\ FrameHandled /\ after_switch
    /\ env = "Indoor" /\ boxes = << 2 >> /\ labels = << "car" >>
    /\ sentence = << "car", " ahead" >>
    /\ last_sentence = sentence
    /\ spoke = <<>>

\* C7: the model-loading code has run at most once, and the instances bound
\* are those of that first load.
C7_LoadedOnce ==
    /\ loads <= 1
    /\ loads >= 1 => (indoor_model = 1 /\ outdoor_model = 1)

\* C8: a frame invokes speech synthesis exactly when it retained labels and
\* its sentence differs from last_sentence before it; then once, on that
\* sentence, which last_sentence holds afterwards; otherwise last_sentence is
\* unchanged.  A new processor starts from the empty string, and the first
\* sentence of a session is spoken.
C8_SpeaksIffNew ==
    /\ [][FrameDone =>
             LET new == labels' # <<>> /\ sentence' # last_sentence
             IN  /\ spoke' # <<>> <=> new
                 /\ new => (spoke' = << sentence' >> /\ last_sentence' = sentence')
                 /\ ~new => last_sentence' = last_sentence
                 /\ (prev_spoken = <<>> /\ labels' # <<>>) => spoke' = << sentence' >>]_vars
    /\ [][(~processor /\ processor') => last_sentence' = <<>>]_vars

\* The first frame of a session composed a sentence and spoke it.
C8_Witness ==
    /\ FrameHandled /\ frames = 1
    /\ labels # <<>> /\ spoke = << sentence >> /\ last_sentence = sentence

\* C9: the sentence of a speech event differs from the sentence of the
\* session's previous speech event.
C9_NoRepeatedSpeech ==
    [][(FrameDone /\ spoke' # <<>>) => spoke'[1] # prev_spoken]_vars

\* Three frames into a session, a sentence spoken earlier was composed again,
\* no other having been spoken since, and stayed silent.
C9_Witness ==
    /\ FrameHandled /\ frames = 3
    /\ sentence # <<>> /\ prev_spoken = sentence
    /\ spoke = <<>>

\* C10: last_sentence is the empty string or a sentence whose synthesis has
\* completed in this session.
C10_LastSentenceSynthesized ==
    last_sentence = <<>> \/ last_sentence \in synthesized

====
